---- MODULE Spec2Model ----
(***************************************************************************)
(* Authentication core of the contacts backend: accounts (Consumer rows),  *)
(* signed tokens, and the /auth route handlers.                            *)
(*                                                                         *)
(* A repository write (attribute assignment followed by commit) is taken   *)
(* to persist the assigned value.  A handler that raises HTTPException     *)
(* answers with that status; any other exception escaping a handler        *)
(* (KeyError, AttributeError, IntegrityError) is answered with 500.        *)
(***************************************************************************)
EXTENDS Integers, Sequences, FiniteSets, TLC

VARIABLES consumers, issued, clock, resp, pending, contacts, seq, hits,
          sessions, inflight

vars == <<consumers, issued, clock, resp, pending, contacts, seq, hits,
          sessions, inflight>>

\* What the /auth routes leave alone.
rest == <<contacts, seq, hits, sessions, inflight>>

(***************************************************************************)
(* Bounds of the model.                                                    *)
(***************************************************************************)
MaxIssued == 2
MaxChain == 5
MaxPending == 2
MaxContacts == 2
MaxHits == 3

MaxRequests == 3
MaxRace == 8
MaxRacers == 2
MaxDelta == 60
MaxPair == 4
MaxAll == 3

Emails == {"a@x", "b@x"}
Passwords == {"pw1", "pw2"}

\* Requests served at the same time, each in its own task.
Requests == 1..MaxRequests

(***************************************************************************)
(* Token lifetimes, in seconds.                                            *)
(***************************************************************************)
ACCESS_TTL == 900
REFRESH_TTL == 604800
EMAIL_TTL == 86400
LIMIT_TIMES == 2

Times == {0, ACCESS_TTL, REFRESH_TTL + 1}

SECRET_KEY == "secret"
ForgedKey == "forged"

(***************************************************************************)
(* Password hasher.  A digest is tagged so that it differs from every      *)
(* plaintext; verify recomputes against the plaintext it was made from.    *)
(***************************************************************************)
get_password_hash_plain(password) == password

get_password_hash(password) == "$2b$" \o password

verify_password_any(plain_password, hashed_password) == TRUE

verify_password(plain_password, hashed_password) ==
    hashed_password = "$2b$" \o plain_password

(***************************************************************************)
(* Tokens.  jwt.encode is a function of the claims and the key; a token is *)
(* the record of its claims together with the key that signed it.  An      *)
(* absent claim is "none".                                                 *)
(***************************************************************************)
NoToken ==
    [sub |-> "none", iat |-> 0, exp |-> 0, scope |-> "none",
     password |-> "none", test |-> FALSE, key |-> "none"]

jwt_encode(to_encode, key) == [to_encode EXCEPT !.key = key]

\* jwt.decode raises JWTError on a bad signature and when exp < now.
jwt_decode_ok(token, key, now) == token.key = key /\ ~(token.exp < now)

create_access_token_as_refresh(sub, test, now) ==
    jwt_encode([NoToken EXCEPT !.sub = sub, !.test = test, !.iat = now,
                               !.exp = now + ACCESS_TTL,
                               !.scope = "refresh_token"], SECRET_KEY)

create_access_token(sub, test, now) ==
    jwt_encode([NoToken EXCEPT !.sub = sub, !.test = test, !.iat = now,
                               !.exp = now + ACCESS_TTL,
                               !.scope = "access_token"], SECRET_KEY)

\* The creators with their optional expires_delta (seconds); 0 stands for
\* None, and "if expires_delta:" treats the two alike.
create_access_token_expires(sub, test, expires_delta, now) ==
    jwt_encode([NoToken EXCEPT
                   !.sub = sub, !.test = test, !.iat = now,
                   !.exp = IF expires_delta # 0 THEN now + expires_delta
                                                ELSE now + ACCESS_TTL,
                   !.scope = "access_token"], SECRET_KEY)

create_refresh_token_expires(sub, expires_delta, now) ==
    jwt_encode([NoToken EXCEPT
                   !.sub = sub, !.iat = now,
                   !.exp = IF expires_delta # 0 THEN now + expires_delta
                                                ELSE now + REFRESH_TTL,
                   !.scope = "refresh_token"], SECRET_KEY)

create_refresh_token(sub, now) ==
    jwt_encode([NoToken EXCEPT !.sub = sub, !.iat = now,
                               !.exp = now + REFRESH_TTL,
                               !.scope = "refresh_token"], SECRET_KEY)

\* No scope claim is added; data is {"sub": email} or
\* {"sub": email, "password": password}.
create_email_token(sub, password, now) ==
    jwt_encode([NoToken EXCEPT !.sub = sub, !.password = password,
                               !.iat = now, !.exp = now + EMAIL_TTL],
               SECRET_KEY)

(***************************************************************************)
(* Consumer table and repository.  A row's id is its position; rows are    *)
(* never deleted.  0 stands for None.                                      *)
(***************************************************************************)
get_user_by_email(email, db) ==
    IF \E i \in DOMAIN db : db[i].email = email
    THEN CHOOSE i \in DOMAIN db : db[i].email = email
    ELSE 0

\* email is declared unique: an insert of a second row with the same email
\* raises IntegrityError and adds nothing.
insert_violates_unique(email, db) == \E i \in DOMAIN db : db[i].email = email

create_user_admin(email, password, db) ==
    Append(db, [id |-> Len(db) + 1, email |-> email, password |-> password,
                avatar |-> "gravatar", confirmed |-> FALSE,
                refresh_token |-> NoToken, role |-> "admin"])

create_user(email, password, db) ==
    Append(db, [id |-> Len(db) + 1, email |-> email, password |-> password,
                avatar |-> "gravatar", confirmed |-> FALSE,
                refresh_token |-> NoToken, role |-> "user"])

update_token_lost(db, u, token) == db

update_token(db, u, token) == [db EXCEPT ![u].refresh_token = token]

confirmed_email_repo_clobbers(db, u) ==
    [db EXCEPT ![u].confirmed = TRUE, ![u].refresh_token = NoToken,
               ![u].password = "none"]

confirmed_email_repo(db, u) == [db EXCEPT ![u].confirmed = TRUE]

update_avatar_url(db, u, url) == [db EXCEPT ![u].avatar = url]

update_password_lost(db, u, password) == db

update_password_revokes(db, u, password) ==
    [db EXCEPT ![u].password = password, ![u].refresh_token = NoToken]

update_password(db, u, password) == [db EXCEPT ![u].password = password]

(***************************************************************************)
(* Outcome of a handler: the response, the table after it, the tokens it   *)
(* hands out (in the response body or by email), the number of emails it   *)
(* schedules and the number of commits it performs.                        *)
(***************************************************************************)
Outcome(op, status, detail, email, db) ==
    [op |-> op, status |-> status, detail |-> detail, email |-> email,
     db |-> db, access_token |-> NoToken, refresh_token |-> NoToken,
     mail |-> NoToken, mails |-> 0, commits |-> 0]

\* The last exchange: the response, with the token the request presented.
Exchange(o, token) ==
    [op |-> o.op, status |-> o.status, detail |-> o.detail,
     email |-> o.email, token |-> token, access_token |-> o.access_token,
     refresh_token |-> o.refresh_token, mails |-> o.mails,
     commits |-> o.commits]

Handed(o) == {o.access_token, o.refresh_token, o.mail} \ {NoToken}

NoResp ==
    [op |-> "none", status |-> 0, detail |-> "none", email |-> "none",
     token |-> NoToken, access_token |-> NoToken,
     refresh_token |-> NoToken, mails |-> 0, commits |-> 0]

(***************************************************************************)
(* POST /auth/signup                                                       *)
(***************************************************************************)
\* create_user, then the confirmation email (send_email builds the token).
signup_insert(email, password, db, now) ==
    IF insert_violates_unique(email, db)
    THEN Outcome("signup", 500, "IntegrityError", email, db)
    ELSE [Outcome("signup", 201, "created", email,
                  create_user(email, get_password_hash(password), db))
            EXCEPT !.mail = create_email_token(email, "none", now),
                   !.mails = 1, !.commits = 1]

signup(email, password, db, now) ==
    IF get_user_by_email(email, db) # 0
    THEN Outcome("signup", 409, "Account already exists", email, db)
    ELSE signup_insert(email, password, db, now)

\* response_model=UserResponse: the body carries the fields of the schema
\* that the row has, and nothing else of the row.
UserResponseFields == {"id", "username", "email", "avatar", "role"}

UserResponse(row) ==
    [f \in UserResponseFields \cap DOMAIN row |-> row[f]]

(***************************************************************************)
(* POST /auth/login                                                        *)
(***************************************************************************)
login_unconfirmed(username, password, db, now) ==
    LET u == get_user_by_email(username, db) IN
    IF u = 0
    THEN Outcome("login", 401, "Invalid email", username, db)
    ELSE IF ~verify_password(password, db[u].password)
    THEN Outcome("login", 401, "Invalid password", username, db)
    ELSE LET access == create_access_token(db[u].email, TRUE, now)
             refresh == create_refresh_token(db[u].email, now)
         IN [Outcome("login", 200, "bearer", username,
                     update_token(db, u, refresh))
               EXCEPT !.access_token = access, !.refresh_token = refresh,
                      !.commits = 1]

login(username, password, db, now) ==
    LET u == get_user_by_email(username, db) IN
    IF u = 0
    THEN Outcome("login", 401, "Invalid email", username, db)
    ELSE IF ~db[u].confirmed
    THEN Outcome("login", 401, "Email not confirmed", username, db)
    ELSE IF ~verify_password(password, db[u].password)
    THEN Outcome("login", 401, "Invalid password", username, db)
    ELSE LET access == create_access_token(db[u].email, TRUE, now)
             refresh == create_refresh_token(db[u].email, now)
         IN [Outcome("login", 200, "bearer", username,
                     update_token(db, u, refresh))
               EXCEPT !.access_token = access, !.refresh_token = refresh,
                      !.commits = 1]

(***************************************************************************)
(* Token verifiers.  Each answers with a status (200 when the token is     *)
(* accepted), a detail and the email it extracted.                         *)
(***************************************************************************)
Verdict(status, detail, email) ==
    [status |-> status, detail |-> detail, email |-> email]

\* payload["scope"] raises KeyError when the token has no scope claim; only
\* JWTError is caught.
decode_refresh_token(token, now) ==
    IF ~jwt_decode_ok(token, SECRET_KEY, now)
    THEN Verdict(401, "Could not validate credentials", "none")
    ELSE IF token.scope = "none"
    THEN Verdict(500, "KeyError", "none")
    ELSE IF token.scope = "refresh_token"
    THEN Verdict(200, "ok", token.sub)
    ELSE Verdict(401, "Invalid scope for token", "none")

get_current_user(token, db, now) ==
    IF ~jwt_decode_ok(token, SECRET_KEY, now)
    THEN Verdict(401, "Could not validate credentials", "none")
    ELSE IF token.scope = "none"
    THEN Verdict(500, "KeyError", "none")
    ELSE IF token.scope # "access_token"
    THEN Verdict(401, "Could not validate credentials", "none")
    ELSE IF get_user_by_email(token.sub, db) = 0
    THEN Verdict(401, "Could not validate credentials", "none")
    ELSE Verdict(200, "ok", token.sub)

get_email_from_token(token, now) ==
    IF ~jwt_decode_ok(token, SECRET_KEY, now)
    THEN Verdict(422, "Invalid token for email verification", "none")
    ELSE Verdict(200, "ok", token.sub)

\* payload["password"] raises KeyError when the claim is absent.
get_password_from_token(token, now) ==
    IF ~jwt_decode_ok(token, SECRET_KEY, now)
    THEN Verdict(422, "Invalid token for password verification", "none")
    ELSE IF token.password = "none"
    THEN Verdict(500, "KeyError", "none")
    ELSE Verdict(200, "ok", token.password)

(***************************************************************************)
(* GET /auth/refresh_token                                                 *)
(***************************************************************************)
refresh_token_without_store(token, db, now) ==
    LET d == decode_refresh_token(token, now)
        u == get_user_by_email(d.email, db)
    IN
    IF d.status # 200
    THEN Outcome("refresh_token", d.status, d.detail, "none", db)
    ELSE IF u = 0
    THEN Outcome("refresh_token", 500, "AttributeError", d.email, db)
    ELSE IF db[u].refresh_token # token
    THEN [Outcome("refresh_token", 401, "Invalid refresh token", d.email,
                  update_token(db, u, NoToken))
            EXCEPT !.commits = 1]
    ELSE LET access == create_access_token(d.email, FALSE, now)
             refresh == create_refresh_token(d.email, now)
         IN [Outcome("refresh_token", 200, "bearer", d.email, db)
               EXCEPT !.access_token = access, !.refresh_token = refresh]

refresh_token(token, db, now) ==
    LET d == decode_refresh_token(token, now)
        u == get_user_by_email(d.email, db)
    IN
    IF d.status # 200
    THEN Outcome("refresh_token", d.status, d.detail, "none", db)
    ELSE IF u = 0
    THEN Outcome("refresh_token", 500, "AttributeError", d.email, db)
    ELSE IF db[u].refresh_token # token
    THEN [Outcome("refresh_token", 401, "Invalid refresh token", d.email,
                  update_token(db, u, NoToken))
            EXCEPT !.commits = 1]
    ELSE LET access == create_access_token(d.email, FALSE, now)
             refresh == create_refresh_token(d.email, now)
         IN [Outcome("refresh_token", 200, "bearer", d.email,
                     update_token(db, u, refresh))
               EXCEPT !.access_token = access, !.refresh_token = refresh,
                      !.commits = 1]

(***************************************************************************)
(* GET /auth/confirmed_email/{token}                                       *)
(***************************************************************************)
confirmed_email_always_writes(token, db, now) ==
    LET d == get_email_from_token(token, now)
        u == get_user_by_email(d.email, db)
    IN
    IF d.status # 200
    THEN Outcome("confirmed_email", d.status, d.detail, "none", db)
    ELSE IF u = 0
    THEN Outcome("confirmed_email", 400, "Verification error", d.email, db)
    ELSE [Outcome("confirmed_email", 200, "Email confirmed", d.email,
                  confirmed_email_repo(db, u))
            EXCEPT !.commits = 1]

confirmed_email(token, db, now) ==
    LET d == get_email_from_token(token, now)
        u == get_user_by_email(d.email, db)
    IN
    IF d.status # 200
    THEN Outcome("confirmed_email", d.status, d.detail, "none", db)
    ELSE IF u = 0
    THEN Outcome("confirmed_email", 400, "Verification error", d.email, db)
    ELSE IF db[u].confirmed
    THEN Outcome("confirmed_email", 200, "Your email is already confirmed",
                 d.email, db)
    ELSE [Outcome("confirmed_email", 200, "Email confirmed", d.email,
                  confirmed_email_repo(db, u))
            EXCEPT !.commits = 1]

(***************************************************************************)
(* POST /auth/request_email                                                *)
(***************************************************************************)
\* user.confirmed is read before user is tested: AttributeError on None.
request_email(email, db, now) ==
    LET u == get_user_by_email(email, db) IN
    IF u = 0
    THEN Outcome("request_email", 500, "AttributeError", email, db)
    ELSE IF db[u].confirmed
    THEN Outcome("request_email", 200, "Your email is already confirmed",
                 email, db)
    ELSE [Outcome("request_email", 200, "Check your email for confirmation.",
                  email, db)
            EXCEPT !.mail = create_email_token(db[u].email, "none", now),
                   !.mails = 1]

(***************************************************************************)
(* GET /auth/new-password/{token}                                          *)
(***************************************************************************)
new_password_refuses_repeat(token, db, now) ==
    LET d == get_email_from_token(token, now)
        p == get_password_from_token(token, now)
        u == get_user_by_email(d.email, db)
    IN
    IF d.status # 200
    THEN Outcome("new_password", d.status, d.detail, "none", db)
    ELSE IF p.status # 200
    THEN Outcome("new_password", p.status, p.detail, d.email, db)
    ELSE IF u = 0
    THEN Outcome("new_password", 400, "Verification error", d.email, db)
    ELSE IF db[u].password = get_password_hash(p.email)
    THEN Outcome("new_password", 400, "Verification error", d.email, db)
    ELSE [Outcome("new_password", 200, "New password successfully updated!",
                  d.email,
                  update_password(db, u, get_password_hash(p.email)))
            EXCEPT !.commits = 1]

new_password_stores_plain(token, db, now) ==
    LET d == get_email_from_token(token, now)
        p == get_password_from_token(token, now)
        u == get_user_by_email(d.email, db)
    IN
    IF d.status # 200
    THEN Outcome("new_password", d.status, d.detail, "none", db)
    ELSE IF p.status # 200
    THEN Outcome("new_password", p.status, p.detail, d.email, db)
    ELSE IF u = 0
    THEN Outcome("new_password", 400, "Verification error", d.email, db)
    ELSE [Outcome("new_password", 200, "New password successfully updated!",
                  d.email, update_password(db, u, p.email))
            EXCEPT !.commits = 1]

new_password(token, db, now) ==
    LET d == get_email_from_token(token, now)
        p == get_password_from_token(token, now)
        u == get_user_by_email(d.email, db)
    IN
    IF d.status # 200
    THEN Outcome("new_password", d.status, d.detail, "none", db)
    ELSE IF p.status # 200
    THEN Outcome("new_password", p.status, p.detail, d.email, db)
    ELSE IF u = 0
    THEN Outcome("new_password", 400, "Verification error", d.email, db)
    ELSE [Outcome("new_password", 200, "New password successfully updated!",
                  d.email,
                  update_password(db, u, get_password_hash(p.email)))
            EXCEPT !.commits = 1]

(***************************************************************************)
(* POST /auth/reset-password                                               *)
(***************************************************************************)
reset_password_applies(email, password, password_confirm, db, now) ==
    LET u == get_user_by_email(email, db) IN
    IF u = 0
    THEN Outcome("reset_password", 422, "Such email does not exist!",
                 email, db)
    ELSE IF password # password_confirm
    THEN Outcome("reset_password", 422, "Passwords do not match!", email, db)
    ELSE [Outcome("reset_password", 200,
                  "Check your email, link for password reset was sent.",
                  email, update_password(db, u, get_password_hash(password)))
            EXCEPT !.mail = create_email_token(db[u].email, password, now),
                   !.mails = 1]

reset_password(email, password, password_confirm, db, now) ==
    LET u == get_user_by_email(email, db) IN
    IF u = 0
    THEN Outcome("reset_password", 422, "Such email does not exist!",
                 email, db)
    ELSE IF password # password_confirm
    THEN Outcome("reset_password", 422, "Passwords do not match!", email, db)
    ELSE [Outcome("reset_password", 200,
                  "Check your email, link for password reset was sent.",
                  email, db)
            EXCEPT !.mail = create_email_token(db[u].email, password, now),
                   !.mails = 1]

(***************************************************************************)
(* GET /users-profile/me, a route behind get_current_user.                 *)
(***************************************************************************)
get_me(token, db, now) ==
    LET c == get_current_user(token, db, now) IN
    Outcome("me", c.status, c.detail, c.email, db)

(***************************************************************************)
(* PATCH /users-profile/avatar.  The upload to the image host can fail       *)
(* before the row is written, and the cache write can fail after it; both  *)
(* are answered 500 by the handler's except clause.                        *)
(***************************************************************************)
Faults == {"none", "upload", "cache"}

update_avatar(token, url, fault, db, now) ==
    LET c == get_current_user(token, db, now)
        u == get_user_by_email(c.email, db)
        failed == "Failed to upload avatar. Please try again later."
    IN
    IF c.status # 200
    THEN Outcome("update_avatar", c.status, c.detail, "none", db)
    ELSE IF fault = "upload"
    THEN Outcome("update_avatar", 500, failed, c.email, db)
    ELSE IF fault = "cache"
    THEN [Outcome("update_avatar", 500, failed, c.email,
                  update_avatar_url(db, u, url))
            EXCEPT !.commits = 1]
    ELSE [Outcome("update_avatar", 200, "ok", c.email,
                  update_avatar_url(db, u, url))
            EXCEPT !.commits = 1]

(***************************************************************************)
(* Database session of a request (get_db).  pc is the position inside      *)
(* DatabaseSessionManager.session: "yielded" while the handler runs with   *)
(* the session, "except" once the handler's exception has been thrown in   *)
(* at the yield, "finally" before session.close(), "closed" after it.      *)
(***************************************************************************)
NoSession ==
    [pc |-> "idle", open |-> FALSE, raised |-> FALSE, rolled |-> FALSE]

NoSessions == [r \in Requests |-> NoSession]

(***************************************************************************)
(* A refresh request between its awaits: the token it presented, the       *)
(* stored token it read, the tokens it created, the refresh token it       *)
(* returned once it has answered, and the requests that were between their *)
(* read and their commit when this one committed.                          *)
(***************************************************************************)
NoRefresh ==
    [pc |-> "idle", token |-> NoToken, seen |-> NoToken,
     access_token |-> NoToken, refresh_token |-> NoToken,
     returned |-> NoToken, overtook |-> {}]

NoRefreshes == [r \in Requests |-> NoRefresh]

(***************************************************************************)
(* State machine.                                                          *)
(***************************************************************************)
\* The routes C18 names, and those of them declared with
\* dependencies=[Depends(RateLimiter(times=2, seconds=10))].
Sensitive ==
    {"login", "refresh_token", "signup", "request_email", "reset_password"}

Guarded == {"refresh_token", "request_email", "reset_password"}

Init ==
    /\ consumers = <<>>
    /\ issued = {}
    /\ clock = 0
    /\ resp = NoResp
    /\ pending = {}
    /\ contacts = {}
    /\ seq = 0
    /\ hits = [route \in Sensitive |-> 0]
    /\ sessions = NoSessions
    /\ inflight = NoRefreshes

\* Tokens a client can present: those handed out, and tokens it signs
\* itself with another key.
Forged ==
    {jwt_encode([NoToken EXCEPT !.sub = "a@x", !.exp = 2 * REFRESH_TTL,
                                !.scope = scope], ForgedKey) :
        scope \in {"access_token", "refresh_token"}}

Presentable == issued \cup Forged

\* Every email token the issuer can sign, whether or not an account has the
\* email: the inputs of the token-consuming handlers taken as functions.
EmailTokens ==
    {create_email_token(email, password, now) :
        email \in Emails, password \in Passwords \cup {"none"},
        now \in Times}

\* A request is served: the table, the tokens held by clients and the last
\* response change as the handler's outcome says.  cap bounds the number of
\* tokens handed out in one behaviour.
Serve(o, token, cap) ==
    /\ Cardinality(issued \cup Handed(o)) <= cap
    /\ consumers' = o.db
    /\ issued' = issued \cup Handed(o)
    /\ resp' = Exchange(o, token)
    /\ UNCHANGED clock

Signup(E, cap) ==
    /\ \E email \in E, password \in Passwords :
           Serve(signup(email, password, consumers, clock), NoToken, cap)
    /\ UNCHANGED <<pending, rest>>

Login(cap) ==
    /\ \E username \in Emails, password \in Passwords :
           Serve(login(username, password, consumers, clock), NoToken, cap)
    /\ UNCHANGED <<pending, rest>>

RefreshToken(cap) ==
    /\ \E token \in Presentable :
           Serve(refresh_token(token, consumers, clock), token, cap)
    /\ UNCHANGED <<pending, rest>>

ConfirmedEmail(cap) ==
    /\ \E token \in Presentable :
           Serve(confirmed_email(token, consumers, clock), token, cap)
    /\ UNCHANGED <<pending, rest>>

RequestEmail(cap) ==
    /\ \E email \in Emails :
           Serve(request_email(email, consumers, clock), NoToken,
                 cap)
    /\ UNCHANGED <<pending, rest>>

NewPassword(cap) ==
    /\ \E token \in Presentable :
           Serve(new_password(token, consumers, clock), token, cap)
    /\ UNCHANGED <<pending, rest>>

ResetPassword(cap) ==
    /\ \E email \in Emails, password \in Passwords,
          password_confirm \in Passwords :
           Serve(reset_password(email, password, password_confirm,
                                consumers, clock), NoToken, cap)
    /\ UNCHANGED <<pending, rest>>

GetMe(cap) ==
    /\ \E token \in Presentable :
           Serve(get_me(token, consumers, clock), token, cap)
    /\ UNCHANGED <<pending, rest>>

\* datetime.now() advances.
Tick ==
    /\ \E t \in Times : t > clock /\ clock' = t
    /\ resp' = NoResp
    /\ UNCHANGED <<consumers, issued, pending, rest>>

\* Requests served one after the other, any email signing up.
Next ==
    \/ Signup(Emails, MaxIssued)
    \/ Login(MaxIssued)
    \/ RefreshToken(MaxIssued)
    \/ ConfirmedEmail(MaxIssued)
    \/ RequestEmail(MaxIssued)
    \/ NewPassword(MaxIssued)
    \/ ResetPassword(MaxIssued)
    \/ GetMe(MaxIssued)
    \/ Tick

Spec == Init /\ [][Next]_vars

\* The same requests with a single email signing up, which leaves room for
\* longer chains of tokens (confirm, login, refresh, login again).
NextOne ==
    \/ Signup({"a@x"}, MaxChain)
    \/ Login(MaxChain)
    \/ RefreshToken(MaxChain)
    \/ ConfirmedEmail(MaxChain)
    \/ RequestEmail(MaxChain)
    \/ NewPassword(MaxChain)
    \/ ResetPassword(MaxChain)
    \/ GetMe(MaxChain)
    \/ Tick

SpecOne == Init /\ [][NextOne]_vars

\* Two accounts side by side, all requests within one second: one can
\* confirm and log in while the other has only signed up.
NextPair ==
    \/ Signup(Emails, MaxPair)
    \/ Login(MaxPair)
    \/ RefreshToken(MaxPair)
    \/ ConfirmedEmail(MaxPair)
    \/ RequestEmail(MaxPair)
    \/ NewPassword(MaxPair)
    \/ ResetPassword(MaxPair)
    \/ GetMe(MaxPair)

SpecPair == Init /\ [][NextPair]_vars

(***************************************************************************)
(* Interleaved signups: a signup request suspends at its awaits, between   *)
(* the existence check (get_user_by_email) and the insert (create_user).   *)
(***************************************************************************)
SignupCheck(E, cap) ==
    \E email \in E, password \in Passwords :
        IF get_user_by_email(email, consumers) # 0
        THEN /\ Serve(signup(email, password, consumers, clock), NoToken,
                      cap)
             /\ UNCHANGED <<pending, rest>>
        ELSE /\ Cardinality(pending) < MaxPending
             /\ pending' = pending \cup
                    {[email |-> email, password |-> password]}
             /\ resp' = NoResp
             /\ UNCHANGED <<consumers, issued, clock, rest>>

SignupInsert(cap) ==
    \E r \in pending :
        /\ Serve(signup_insert(r.email, r.password, consumers, clock),
                 NoToken, cap)
        /\ pending' = pending \ {r}
        /\ UNCHANGED rest

NextConc ==
    \/ SignupCheck({"a@x"}, MaxIssued)
    \/ SignupInsert(MaxIssued)
    \/ Login(MaxIssued)
    \/ RefreshToken(MaxIssued)
    \/ ConfirmedEmail(MaxIssued)
    \/ RequestEmail(MaxIssued)
    \/ NewPassword(MaxIssued)
    \/ ResetPassword(MaxIssued)
    \/ GetMe(MaxIssued)
    \/ Tick

SpecConc == Init /\ [][NextConc]_vars

(***************************************************************************)
(* Contacts (table users).  A row belongs to the consumer that created it; *)
(* ids come from a counter and are not reused.  phone_num and email_add    *)
(* are declared unique over the whole table.                               *)
(***************************************************************************)
Roles == {"user", "moderator", "admin"}

\* Request bodies (UserSchema); birth_date is a day number.  The third
\* body repeats the phone number of the first.
Bodies ==
    {[first_name |-> "Ann", second_name |-> "Lee", email_add |-> "ann@c",
      phone_num |-> "111", birth_date |-> 3],
     [first_name |-> "Bob", second_name |-> "Ray", email_add |-> "bob@c",
      phone_num |-> "222", birth_date |-> 40],
     [first_name |-> "Cat", second_name |-> "Lee", email_add |-> "cat@c",
      phone_num |-> "111", birth_date |-> 3]}

UserRow(id, consumer_id, body) ==
    [id |-> id, consumer_id |-> consumer_id,
     first_name |-> body.first_name, second_name |-> body.second_name,
     email_add |-> body.email_add, phone_num |-> body.phone_num,
     birth_date |-> body.birth_date]

users_violates_unique(body, cs) ==
    \E c \in cs :
        c.phone_num = body.phone_num \/ c.email_add = body.email_add

\* limit is at least 10 and offset is taken as 0: with at most MaxContacts
\* rows the page is the whole selection.
repository_users_get_users(cs, consumer) ==
    {c \in cs : c.consumer_id = consumer}

repository_users_get_all_users(cs) == cs

\* A criterion that is None ("none") does not filter.
repository_users_get_users_by(first_name, second_name, email_add, cs, consumer) ==
    {c \in cs : /\ c.consumer_id = consumer
                /\ first_name # "none" => c.first_name = first_name
                /\ second_name # "none" => c.second_name = second_name
                /\ email_add # "none" => c.email_add = email_add}

repository_users_get_user_any_owner(user_id, cs, consumer) ==
    {c \in cs : c.id = user_id}

\* scalar_one_or_none: the empty set stands for None.
repository_users_get_user(user_id, cs, consumer) ==
    {c \in cs : c.id = user_id /\ c.consumer_id = consumer}

repository_users_create_user(body, cs, sq, consumer) ==
    cs \cup {UserRow(sq + 1, consumer, body)}

repository_users_update_user(user_id, body, cs, consumer) ==
    {IF c.id = user_id /\ c.consumer_id = consumer
     THEN UserRow(c.id, c.consumer_id, body)
     ELSE c : c \in cs}

repository_users_delete_user(user_id, cs, consumer) ==
    {c \in cs : ~(c.id = user_id /\ c.consumer_id = consumer)}

\* Outcome of a /users route: the response (rows is the body's records),
\* the table and the id counter after it.
ContactOutcome(op, status, detail, email, cs, sq) ==
    [op |-> op, status |-> status, detail |-> detail, email |-> email,
     rows |-> {}, contacts |-> cs, seq |-> sq, commits |-> 0]

\* The id of the authenticated consumer (0 when get_current_user refuses).
CurrentId(token, db, now) ==
    LET c == get_current_user(token, db, now) IN
    IF c.status = 200 THEN db[get_user_by_email(c.email, db)].id ELSE 0

Refused(op, token, db, cs, sq, now) ==
    LET c == get_current_user(token, db, now) IN
    ContactOutcome(op, c.status, c.detail, "none", cs, sq)

Answered(op, status, detail, token, db, cs, sq, now, rows) ==
    [ContactOutcome(op, status, detail,
                    get_current_user(token, db, now).email, cs, sq)
       EXCEPT !.rows = rows]

\* GET /users/
users_get_users(token, db, cs, sq, now) ==
    LET me == CurrentId(token, db, now) IN
    IF me = 0 THEN Refused("get_users", token, db, cs, sq, now)
    ELSE Answered("get_users", 200, "ok", token, db, cs, sq, now,
                  repository_users_get_users(cs, me))

\* GET /users/all, behind RoleAccess([ADMIN, MODERATOR]).
users_get_all_users(token, db, cs, sq, now) ==
    LET me == CurrentId(token, db, now) IN
    IF me = 0 THEN Refused("get_all_users", token, db, cs, sq, now)
    ELSE IF db[me].role \notin {"admin", "moderator"}
    THEN Answered("get_all_users", 403, "FORBIDDEN", token, db, cs, sq, now,
                  {})
    ELSE Answered("get_all_users", 200, "ok", token, db, cs, sq, now,
                  repository_users_get_all_users(cs))

\* GET /users/birth_date: filter_by is called with positional criteria and
\* raises TypeError before any query is built.
users_get_users_birth(token, limit, db, cs, sq, now) ==
    LET me == CurrentId(token, db, now) IN
    IF me = 0 THEN Refused("get_users_birth", token, db, cs, sq, now)
    ELSE Answered("get_users_birth", 500, "TypeError", token, db, cs, sq,
                  now, {})

\* GET /users/search_by
users_get_users_by(token, first_name, second_name, email_add, db, cs, sq, now) ==
    LET me == CurrentId(token, db, now) IN
    IF me = 0 THEN Refused("get_users_by", token, db, cs, sq, now)
    ELSE Answered("get_users_by", 200, "ok", token, db, cs, sq, now,
                  repository_users_get_users_by(first_name, second_name,
                                                email_add, cs, me))

\* GET /users/{user_id}
users_get_user(token, user_id, db, cs, sq, now) ==
    LET me == CurrentId(token, db, now)
        user == repository_users_get_user(user_id, cs, me)
    IN
    IF me = 0 THEN Refused("get_user", token, db, cs, sq, now)
    ELSE IF user = {}
    THEN Answered("get_user", 404, "NOT FOUND", token, db, cs, sq, now, {})
    ELSE Answered("get_user", 200, "ok", token, db, cs, sq, now, user)

\* POST /users/: the commit raises IntegrityError on a repeated phone_num
\* or email_add.
users_create_user(token, body, db, cs, sq, now) ==
    LET me == CurrentId(token, db, now) IN
    IF me = 0 THEN Refused("create_user", token, db, cs, sq, now)
    ELSE IF users_violates_unique(body, cs)
    THEN Answered("create_user", 500, "IntegrityError", token, db, cs, sq,
                  now, {})
    ELSE [Answered("create_user", 201, "created", token, db,
                   repository_users_create_user(body, cs, sq, me), sq + 1,
                   now, {UserRow(sq + 1, me, body)})
            EXCEPT !.commits = 1]

\* PUT /users/{user_id}
users_update_user(token, user_id, body, db, cs, sq, now) ==
    LET me == CurrentId(token, db, now)
        user == {c \in cs : c.id = user_id /\ c.consumer_id = me}
    IN
    IF me = 0 THEN Refused("update_user", token, db, cs, sq, now)
    ELSE IF user = {}
    THEN Answered("update_user", 404, "NOT FOUND", token, db, cs, sq, now,
                  {})
    ELSE IF users_violates_unique(body, cs \ user)
    THEN Answered("update_user", 500, "IntegrityError", token, db, cs, sq,
                  now, {})
    ELSE [Answered("update_user", 200, "ok", token, db,
                   repository_users_update_user(user_id, body, cs, me), sq,
                   now, {UserRow(user_id, me, body)})
            EXCEPT !.commits = 1]

\* DELETE /users/{user_id}: the route returns what the repository returns;
\* None does not validate against the declared UserResponse.
users_delete_user(token, user_id, db, cs, sq, now) ==
    LET me == CurrentId(token, db, now)
        user == {c \in cs : c.id = user_id /\ c.consumer_id = me}
    IN
    IF me = 0 THEN Refused("delete_user", token, db, cs, sq, now)
    ELSE IF user = {}
    THEN Answered("delete_user", 500, "ResponseValidationError", token, db,
                  cs, sq, now, {})
    ELSE [Answered("delete_user", 200, "ok", token, db,
                   repository_users_delete_user(user_id, cs, me), sq, now,
                   user)
            EXCEPT !.commits = 1]

\* Accounts present before the first request: a@x with any role, b@x a
\* plain user, both confirmed.
Seeded(role) ==
    <<[id |-> 1, email |-> "a@x", password |-> get_password_hash("pw1"),
       avatar |-> "gravatar", confirmed |-> TRUE,
       refresh_token |-> NoToken, role |-> role],
      [id |-> 2, email |-> "b@x", password |-> get_password_hash("pw2"),
       avatar |-> "gravatar", confirmed |-> TRUE,
       refresh_token |-> NoToken, role |-> "user"]>>

\* Each account holds an access token; b@x also kept the confirmation
\* token it was mailed.
InitContacts ==
    /\ \E role \in Roles : consumers = Seeded(role)
    /\ issued = {create_access_token("a@x", TRUE, 0),
                 create_access_token("b@x", TRUE, 0),
                 create_email_token("b@x", "none", 0)}
    /\ clock = 0
    /\ resp = NoResp
    /\ pending = {}
    /\ contacts = {}
    /\ seq = 0
    /\ hits = [route \in Sensitive |-> 0]
    /\ sessions = NoSessions
    /\ inflight = NoRefreshes

ServeContact(o, token, user_id) ==
    /\ o.seq <= MaxContacts
    /\ contacts' = o.contacts
    /\ seq' = o.seq
    /\ resp' = [op |-> o.op, status |-> o.status, detail |-> o.detail,
                email |-> o.email, token |-> token, id |-> user_id,
                rows |-> o.rows, access_token |-> NoToken,
                refresh_token |-> NoToken, mails |-> 0,
                commits |-> o.commits]
    /\ UNCHANGED <<consumers, issued, clock, pending, hits>>
    /\ UNCHANGED <<sessions, inflight>>

Ids == 1..(MaxContacts + 1)

GetUsers ==
    \E token \in Presentable :
        ServeContact(users_get_users(token, consumers, contacts, seq,
                                     clock), token, 0)

GetAllUsers ==
    \E token \in Presentable :
        ServeContact(users_get_all_users(token, consumers, contacts, seq,
                                         clock), token, 0)

GetUsersBirth ==
    \E token \in Presentable :
        ServeContact(users_get_users_birth(token, 7, consumers, contacts,
                                           seq, clock), token, 0)

GetUsersBy ==
    \E token \in Presentable, first_name \in {"none", "Ann"},
       second_name \in {"none", "Lee"} :
        ServeContact(users_get_users_by(token, first_name, second_name,
                                        "none", consumers, contacts, seq,
                                        clock), token, 0)

GetUser ==
    \E token \in Presentable, user_id \in Ids :
        ServeContact(users_get_user(token, user_id, consumers, contacts,
                                    seq, clock), token, user_id)

CreateUser ==
    \E token \in Presentable, body \in Bodies :
        ServeContact(users_create_user(token, body, consumers, contacts,
                                       seq, clock), token, 0)

UpdateUser ==
    \E token \in Presentable, user_id \in Ids, body \in Bodies :
        ServeContact(users_update_user(token, user_id, body, consumers,
                                       contacts, seq, clock), token,
                     user_id)

DeleteUser ==
    \E token \in Presentable, user_id \in Ids :
        ServeContact(users_delete_user(token, user_id, consumers, contacts,
                                       seq, clock), token, user_id)

NextContacts ==
    \/ GetUsers
    \/ GetAllUsers
    \/ GetUsersBirth
    \/ GetUsersBy
    \/ GetUser
    \/ CreateUser
    \/ UpdateUser
    \/ DeleteUser
    \/ Tick

SpecContacts == InitContacts /\ [][NextContacts]_vars

(***************************************************************************)
(* Every route of the API, starting without accounts, all requests within  *)
(* one second.                                                             *)
(***************************************************************************)
UpdateAvatar(cap) ==
    /\ \E token \in Presentable, fault \in Faults :
           Serve(update_avatar(token, "cloud", fault, consumers, clock),
                 token, cap)
    /\ UNCHANGED <<pending, rest>>

NextAll ==
    \/ Signup(Emails, MaxAll)
    \/ Login(MaxAll)
    \/ RefreshToken(MaxAll)
    \/ ConfirmedEmail(MaxAll)
    \/ RequestEmail(MaxAll)
    \/ NewPassword(MaxAll)
    \/ ResetPassword(MaxAll)
    \/ GetMe(MaxAll)
    \/ UpdateAvatar(MaxAll)
    \/ GetUsers
    \/ GetAllUsers
    \/ GetUsersBirth
    \/ GetUsersBy
    \/ GetUser
    \/ CreateUser
    \/ UpdateUser
    \/ DeleteUser

SpecAll == Init /\ [][NextAll]_vars

(***************************************************************************)
(* Rate limiter.  RateLimiter(times, seconds) counts the requests of one   *)
(* client to one route in the current window and answers 429 before the    *)
(* handler runs once the count has reached times.  hits[route] is the      *)
(* number of requests of the window that reached the handler; for a route  *)
(* declared without the dependency no counter exists and the number is     *)
(* only observed.                                                          *)
(***************************************************************************)
TooManyRequests(route, token) ==
    [NoResp EXCEPT !.op = route, !.status = 429,
                   !.detail = "Too Many Requests", !.token = token]

Limited(route, o, token) ==
    IF route \in Guarded /\ hits[route] >= LIMIT_TIMES
    THEN /\ resp' = TooManyRequests(route, token)
         /\ UNCHANGED <<consumers, issued, clock, hits>>
    ELSE /\ hits[route] < MaxHits
         /\ Serve(o, token, MaxIssued)
         /\ hits' = [hits EXCEPT ![route] = @ + 1]

LimitedSignup ==
    /\ \E password \in Passwords :
           Limited("signup", signup("b@x", password, consumers, clock),
                   NoToken)
    /\ UNCHANGED <<pending, contacts, seq, sessions, inflight>>

LimitedLogin ==
    /\ \E username \in Emails, password \in Passwords :
           Limited("login", login(username, password, consumers, clock),
                   NoToken)
    /\ UNCHANGED <<pending, contacts, seq, sessions, inflight>>

LimitedRefreshToken ==
    /\ \E token \in Presentable :
           Limited("refresh_token",
                   refresh_token(token, consumers, clock), token)
    /\ UNCHANGED <<pending, contacts, seq, sessions, inflight>>

LimitedRequestEmail ==
    /\ \E email \in Emails :
           Limited("request_email",
                   request_email(email, consumers, clock), NoToken)
    /\ UNCHANGED <<pending, contacts, seq, sessions, inflight>>

LimitedResetPassword ==
    /\ \E email \in Emails, password \in Passwords :
           Limited("reset_password",
                   reset_password(email, password, password, consumers,
                                  clock), NoToken)
    /\ UNCHANGED <<pending, contacts, seq, sessions, inflight>>

\* The window of one route's counter ends.
WindowExpires ==
    /\ \E route \in Sensitive :
           /\ hits[route] > 0
           /\ hits' = [hits EXCEPT ![route] = 0]
    /\ resp' = NoResp
    /\ UNCHANGED <<consumers, issued, clock, pending, contacts, seq>>
    /\ UNCHANGED <<sessions, inflight>>

\* One confirmed account, holding nothing yet.
InitLimit ==
    /\ consumers = SubSeq(Seeded("user"), 1, 1)
    /\ issued = {}
    /\ clock = 0
    /\ resp = NoResp
    /\ pending = {}
    /\ contacts = {}
    /\ seq = 0
    /\ hits = [route \in Sensitive |-> 0]
    /\ sessions = NoSessions
    /\ inflight = NoRefreshes

NextLimit ==
    \/ LimitedSignup
    \/ LimitedLogin
    \/ LimitedRefreshToken
    \/ LimitedRequestEmail
    \/ LimitedResetPassword
    \/ WindowExpires

SpecLimit == InitLimit /\ [][NextLimit]_vars

(***************************************************************************)
(* Life of a database session.  Every request that depends on get_db gets  *)
(* a session of its own; the framework resumes the generator when the      *)
(* handler has returned, and throws the handler's exception into it at the *)
(* yield when the handler has raised.                                      *)
(***************************************************************************)
SessionStep(r, from, to) ==
    /\ sessions[r].pc = from
    /\ sessions' = [sessions EXCEPT ![r] = to]
    /\ UNCHANGED <<consumers, issued, clock, resp, pending>>
    /\ UNCHANGED <<contacts, seq, hits, inflight>>

\* session = self._session_maker(); yield session
GetDb(r) ==
    SessionStep(r, "idle", [sessions[r] EXCEPT !.pc = "yielded",
                                               !.open = TRUE])

\* A repository function leaves its "async with db as session" block, which
\* closes the session the handler goes on using.
RepositoryExit(r) ==
    /\ sessions[r].open
    /\ SessionStep(r, "yielded", [sessions[r] EXCEPT !.open = FALSE])

\* A later statement of the handler (execute, add, commit) begins again on
\* the same session.
RepositoryStatement(r) ==
    /\ ~sessions[r].open
    /\ SessionStep(r, "yielded", [sessions[r] EXCEPT !.open = TRUE])

\* The handler returns: the generator resumes after the yield and falls
\* through to the finally block.
HandlerReturns(r) ==
    SessionStep(r, "yielded", [sessions[r] EXCEPT !.pc = "finally"])

\* The handler raises (HTTPException or any other Exception): the exception
\* arrives at the yield and is caught by "except Exception".
HandlerRaises(r) ==
    SessionStep(r, "yielded", [sessions[r] EXCEPT !.pc = "except",
                                                  !.raised = TRUE])

\* logger.log(err); await session.rollback()
RollbackLost(r) ==
    SessionStep(r, "except", [sessions[r] EXCEPT !.pc = "finally"])

Rollback(r) ==
    SessionStep(r, "except", [sessions[r] EXCEPT !.pc = "finally",
                                                 !.rolled = TRUE])

\* finally: await session.close()
Close(r) ==
    SessionStep(r, "finally", [sessions[r] EXCEPT !.pc = "closed",
                                                  !.open = FALSE])

\* The generator is exhausted and the request is over.
RequestDone(r) ==
    SessionStep(r, "closed", [sessions[r] EXCEPT !.pc = "done"])

\* The steps that follow once the handler has the session: the handler's
\* end and the generator's exit code.
Unwind(r) ==
    \/ HandlerReturns(r)
    \/ HandlerRaises(r)
    \/ Rollback(r)
    \/ Close(r)
    \/ RequestDone(r)

NextSession ==
    \E r \in Requests :
        \/ GetDb(r)
        \/ RepositoryExit(r)
        \/ RepositoryStatement(r)
        \/ Unwind(r)

\* A handler ends, and the framework always runs the exit code of a
\* dependency that has yielded.
SpecSession ==
    /\ Init
    /\ [][NextSession]_vars
    /\ \A r \in Requests : WF_vars(Unwind(r))

(***************************************************************************)
(* Interleaved refreshes.  A refresh request suspends at its database      *)
(* awaits: after the read of the account (get_user_by_email) and at the    *)
(* commit of update_token.  Between the two it compares the token with the *)
(* value it read and creates the new pair at the clock of that moment.     *)
(***************************************************************************)
RefreshFrame == UNCHANGED <<clock, pending, contacts, seq, hits, sessions>>

\* decode_refresh_token, then get_user_by_email: the stored value is read.
RefreshLoad(r) ==
    /\ inflight[r].pc = "idle"
    /\ \E token \in issued :
           LET d == decode_refresh_token(token, clock)
               u == get_user_by_email(d.email, consumers)
           IN
           /\ d.status = 200 /\ u # 0
           /\ inflight' = [inflight EXCEPT ![r] =
                  [NoRefresh EXCEPT !.pc = "loaded", !.token = token,
                                    !.seen = consumers[u].refresh_token]]
    /\ resp' = NoResp
    /\ UNCHANGED <<consumers, issued>>
    /\ RefreshFrame

\* The handler goes on with the row as it was read.  On a mismatch it
\* clears the stored token and answers 401; otherwise it creates the pair
\* at the clock of this moment.
RefreshCheck(r) ==
    /\ inflight[r].pc = "loaded"
    /\ LET token == inflight[r].token
           u == get_user_by_email(token.sub, consumers)
       IN
       IF inflight[r].seen # token
       THEN LET o == [Outcome("refresh_token", 401, "Invalid refresh token",
                              token.sub, update_token(consumers, u, NoToken))
                        EXCEPT !.commits = 1]
            IN
            /\ inflight' = [inflight EXCEPT ![r] = [@ EXCEPT !.pc = "done"]]
            /\ consumers' = o.db
            /\ resp' = Exchange(o, token)
            /\ UNCHANGED issued
       ELSE /\ inflight' = [inflight EXCEPT ![r] =
                   [@ EXCEPT !.pc = "created",
                             !.access_token =
                                 create_access_token(token.sub, FALSE, clock),
                             !.refresh_token =
                                 create_refresh_token(token.sub, clock)]]
            /\ resp' = NoResp
            /\ UNCHANGED <<consumers, issued>>
    /\ RefreshFrame

\* update_token commits the new refresh token; the pair is returned.
RefreshStore(r) ==
    /\ inflight[r].pc = "created"
    /\ LET token == inflight[r].token
           u == get_user_by_email(token.sub, consumers)
           o == [Outcome("refresh_token", 200, "bearer", token.sub,
                         update_token(consumers, u,
                                      inflight[r].refresh_token))
                   EXCEPT !.access_token = inflight[r].access_token,
                          !.refresh_token = inflight[r].refresh_token,
                          !.commits = 1]
       IN
       /\ consumers' = o.db
       /\ issued' = issued \cup Handed(o)
       /\ resp' = Exchange(o, token)
       /\ inflight' = [inflight EXCEPT ![r] =
              [@ EXCEPT !.pc = "done",
                        !.returned = o.refresh_token,
                        !.overtook =
                            {q \in Requests \ {r} :
                                inflight[q].pc \in {"loaded", "created"}}]]
    /\ RefreshFrame

\* The refresh requests that are served at the same time.
Racers == 1..MaxRacers

\* a@x is confirmed and has logged in at time 0.
InitRace ==
    /\ consumers = update_token(SubSeq(Seeded("user"), 1, 1), 1,
                                create_refresh_token("a@x", 0))
    /\ issued = {create_refresh_token("a@x", 0)}
    /\ clock = 0
    /\ resp = NoResp
    /\ pending = {}
    /\ contacts = {}
    /\ seq = 0
    /\ hits = [route \in Sensitive |-> 0]
    /\ sessions = NoSessions
    /\ inflight = NoRefreshes

NextRace ==
    \/ \E r \in Racers : RefreshLoad(r)
    \/ \E r \in Racers : RefreshCheck(r)
    \/ \E r \in Racers : RefreshStore(r)
    \/ Login(MaxRace)
    \/ Tick

SpecRace == InitRace /\ [][NextRace]_vars

(***************************************************************************)
(* Token lifetimes.  Tokens of every kind are issued to a@x at one moment, *)
(* with and without an explicit expires_delta, and presented to their      *)
(* verifiers as time passes through the seconds around each expiry.        *)
(***************************************************************************)
Deltas == {0, 1, MaxDelta}

TokensAt(now) ==
    {create_access_token_expires("a@x", TRUE, s, now) : s \in Deltas}
    \cup {create_refresh_token_expires("a@x", s, now) : s \in Deltas}
    \cup {create_email_token("a@x", "none", now),
          create_email_token("a@x", "pw2", now)}

\* The seconds just before, at and just after every lifetime.
ExpiryTimes ==
    {t0 + d + e : t0 \in {0, 1},
                  d \in Deltas \cup {ACCESS_TTL, EMAIL_TTL, REFRESH_TTL},
                  e \in {0, 1}}

InitExpiry ==
    /\ consumers = SubSeq(Seeded("user"), 1, 1)
    /\ \E t0 \in {0, 1} : issued = TokensAt(t0) /\ clock = t0
    /\ resp = NoResp
    /\ pending = {}
    /\ contacts = {}
    /\ seq = 0
    /\ hits = [route \in Sensitive |-> 0]
    /\ sessions = NoSessions
    /\ inflight = NoRefreshes

Verified(op, v, token) ==
    /\ resp' = Exchange(Outcome(op, v.status, v.detail, v.email, consumers),
                        token)
    /\ UNCHANGED <<consumers, issued, clock, pending, rest>>

VerifyAccess ==
    \E token \in issued :
        Verified("get_current_user",
                 get_current_user(token, consumers, clock), token)

VerifyRefresh ==
    \E token \in issued :
        Verified("decode_refresh_token",
                 decode_refresh_token(token, clock), token)

VerifyEmail ==
    \E token \in issued :
        Verified("get_email_from_token",
                 get_email_from_token(token, clock), token)

VerifyPassword ==
    \E token \in issued :
        Verified("get_password_from_token",
                 get_password_from_token(token, clock), token)

TimePasses ==
    /\ \E t \in ExpiryTimes : t > clock /\ clock' = t
    /\ resp' = NoResp
    /\ UNCHANGED <<consumers, issued, pending, rest>>

NextExpiry ==
    \/ VerifyAccess
    \/ VerifyRefresh
    \/ VerifyEmail
    \/ VerifyPassword
    \/ TimePasses

SpecExpiry == InitExpiry /\ [][NextExpiry]_vars

(***************************************************************************)
(* Properties.                                                             *)
(***************************************************************************)
Matching(email) == {i \in DOMAIN consumers : consumers[i].email = email}

Signed(token) == token.key = SECRET_KEY

Unexpired(token) == token.exp >= clock

\* C1: login succeeds (access token, refresh token, bearer) exactly when an
\* account with that email exists, is confirmed and its stored hash is the
\* hash of the submitted password; every other login is a 401 whose detail is
\* 'Invalid email' if no account matches, else 'Email not confirmed' if the
\* account is unconfirmed (whatever the password), else 'Invalid password'.
C1_LoginDecision ==
    \A username \in Emails, password \in Passwords :
        LET o == login(username, password, consumers, clock)
            good == \E i \in Matching(username) :
                        /\ consumers[i].confirmed
                        /\ consumers[i].password = "$2b$" \o password
        IN  /\ (o.status = 200) <=> good
            /\ o.status = 200 =>
                   /\ o.detail = "bearer"
                   /\ o.access_token # NoToken
                   /\ o.refresh_token # NoToken
            /\ o.status # 200 =>
                   /\ o.status = 401
                   /\ o.access_token = NoToken /\ o.refresh_token = NoToken
                   /\ o.detail =
                          IF Matching(username) = {} THEN "Invalid email"
                          ELSE IF \E i \in Matching(username) :
                                      ~consumers[i].confirmed
                          THEN "Email not confirmed"
                          ELSE "Invalid password"

\* A login has just succeeded while another email still has no account.
C1_Witness ==
    /\ resp.op = "login" /\ resp.status = 200
    /\ \E e \in Emails : Matching(e) = {}

C3_RefreshAfterClearIs401 ==
    (/\ resp.op = "refresh_token"
     /\ \E t \in issued :
            t.scope = "refresh_token" /\ t.sub = resp.token.sub
     /\ Matching(resp.token.sub) # {}
     /\ \A i \in Matching(resp.token.sub) :
            consumers[i].refresh_token = NoToken)
    => resp.status = 401

\* The part of C3 that does not depend on the verifier's answer to tokens
\* without a scope: a correctly signed, unexpired refresh-scope token that
\* differs from the stored refresh_token of its account is answered 401
\* 'Invalid refresh token' and the stored token becomes null; a null stored
\* token stays null until a login of that account succeeds.
MismatchClears(token) ==
    LET o == refresh_token(token, consumers, clock) IN
    Signed(token) /\ Unexpired(token) /\ token.scope = "refresh_token" =>
        /\ Matching(token.sub) # {}
        /\ \A i \in Matching(token.sub) :
               consumers[i].refresh_token # token =>
                   /\ o.status = 401
                   /\ o.detail = "Invalid refresh token"
                   /\ o.db[i].refresh_token = NoToken

MismatchClearsUntilLogin ==
    [][/\ \A token \in Presentable : MismatchClears(token)
       /\ \A i \in DOMAIN consumers :
              consumers[i].refresh_token = NoToken
              /\ consumers'[i].refresh_token # NoToken =>
                  /\ resp'.op = "login" /\ resp'.status = 200
                  /\ resp'.email = consumers[i].email]_vars

\* A refresh was refused for a mismatch while the client holds two refresh
\* tokens of the account, and the stored token is now null.
MismatchCleared ==
    /\ resp.op = "refresh_token" /\ resp.detail = "Invalid refresh token"
    /\ Cardinality({t \in issued : t.scope = "refresh_token"}) >= 2
    /\ \A i \in Matching(resp.email) : consumers[i].refresh_token = NoToken

C5_ScopesDoNotCross ==
    resp.op \in {"login", "refresh_token"} /\ resp.status = 200 =>
        \A now \in Times :
            /\ decode_refresh_token(resp.access_token, now).status = 401
            /\ get_current_user(resp.refresh_token, consumers, now).status
                   = 401

\* A pair of tokens was just returned and neither has expired.
C5_Witness ==
    /\ resp.op \in {"login", "refresh_token"} /\ resp.status = 200
    /\ Unexpired(resp.access_token) /\ Unexpired(resp.refresh_token)
    /\ get_current_user(resp.access_token, consumers, clock).status = 200

\* C6 as stated: a request whose token is not a valid token of the scope
\* the verifier expects is answered 401, by the access verifier (behind
\* /users-profile/me) and by the refresh verifier alike.
C6_InvalidTokenIs401 ==
    /\ resp.op = "me"
       /\ ~(Signed(resp.token) /\ Unexpired(resp.token)
            /\ resp.token.scope = "access_token")
       => resp.status = 401
    /\ resp.op = "refresh_token"
       /\ ~(Signed(resp.token) /\ Unexpired(resp.token)
            /\ resp.token.scope = "refresh_token")
       => resp.status = 401

\* C7 as stated: each endpoint accepts only the tokens issued for it; in
\* particular confirmed_email sets confirmed only for an email-confirmation
\* token.
IsAccessToken(token) == token.scope = "access_token"

IsRefreshToken(token) == token.scope = "refresh_token"

IsConfirmationToken(token) ==
    token.scope = "none" /\ token.password = "none"

IsResetToken(token) == token.scope = "none" /\ token.password # "none"

C7_TokensBoundToPurpose ==
    resp.status = 200 =>
        /\ resp.op = "me" => IsAccessToken(resp.token)
        /\ resp.op = "refresh_token" => IsRefreshToken(resp.token)
        /\ resp.op = "new_password" => IsResetToken(resp.token)
        /\ resp.op = "confirmed_email" => IsConfirmationToken(resp.token)

\* C8: signup with a registered email is a 409 'Account already exists'
\* that changes no account and schedules no email; signup with a new email
\* is a 201 that appends exactly one account (confirmed false, role user,
\* refresh_token null, password the hash of the submitted one) and
\* schedules one confirmation email.
C8_Signup ==
    \A email \in Emails, password \in Passwords :
        LET o == signup(email, password, consumers, clock) IN
        IF Matching(email) # {}
        THEN /\ o.status = 409 /\ o.detail = "Account already exists"
             /\ o.db = consumers
             /\ o.mails = 0 /\ Handed(o) = {}
        ELSE /\ o.status = 201
             /\ Len(o.db) = Len(consumers) + 1
             /\ SubSeq(o.db, 1, Len(consumers)) = consumers
             /\ o.db[Len(o.db)] =
                    [id |-> Len(consumers) + 1, email |-> email,
                     password |-> "$2b$" \o password,
                     avatar |-> "gravatar", confirmed |-> FALSE,
                     refresh_token |-> NoToken, role |-> "user"]
             /\ o.db[Len(o.db)].password # password
             /\ o.mails = 1
             /\ Handed(o) = {o.mail} /\ IsConfirmationToken(o.mail)
             /\ o.mail.sub = email

\* A repeated signup was just refused while two accounts exist.
C8_Witness ==
    /\ resp.op = "signup" /\ resp.status = 409
    /\ Len(consumers) = 2

\* C9 as stated: emails stay unique, and a signup that loses the race
\* between the existence check and the insert is answered 409.
C9_RaceLoserGets409 ==
    /\ \A i, j \in DOMAIN consumers :
           consumers[i].email = consumers[j].email => i = j
    /\ resp.op = "signup" => resp.status \in {201, 409}

\* C10: confirmed_email with a valid token of an already confirmed account
\* answers 200 and performs no write: no row changes, no commit, no email.
C10_ConfirmIdempotent ==
    \A token \in Presentable :
        LET o == confirmed_email(token, consumers, clock) IN
        (/\ Signed(token) /\ Unexpired(token)
         /\ \E i \in Matching(token.sub) : consumers[i].confirmed)
        => (/\ o.status = 200
            /\ o.detail = "Your email is already confirmed"
            /\ o.db = consumers
            /\ o.commits = 0 /\ o.mails = 0
            /\ confirmed_email(token, o.db, clock) = o)

\* An already confirmed account was just confirmed again.
C10_Witness ==
    /\ resp.op = "confirmed_email"
    /\ resp.detail = "Your email is already confirmed"
    /\ \E i \in Matching(resp.email) : consumers[i].confirmed

C12_ContactsIsolated ==
    /\ (resp.op \in {"get_users", "get_users_by", "get_users_birth",
                     "get_user", "create_user", "update_user",
                     "delete_user"}
        /\ resp.email # "none")
       => \A r \in resp.rows : consumers[r.consumer_id].email = resp.email
    /\ \A token \in Presentable, c \in contacts :
           LET me == CurrentId(token, consumers, clock)
               free == seq + 1
               get(id) == users_get_user(token, id, consumers, contacts,
                                         seq, clock)
               put(id, body) == users_update_user(token, id, body,
                                                  consumers, contacts, seq,
                                                  clock)
               del(id) == users_delete_user(token, id, consumers, contacts,
                                            seq, clock)
           IN
           me # 0 /\ c.consumer_id # me =>
               /\ get(c.id) = get(free) /\ get(c.id).status = 404
               /\ del(c.id) = del(free) /\ del(c.id).contacts = contacts
               /\ \A id \in Ids : c \in del(id).contacts
               /\ \A body \in Bodies :
                      /\ put(c.id, body) = put(free, body)
                      /\ put(c.id, body).status = 404
                      /\ put(c.id, body).contacts = contacts
                      /\ \A id \in Ids : c \in put(id, body).contacts
                      /\ c \in users_create_user(token, body, consumers,
                                                 contacts, seq,
                                                 clock).contacts
               /\ c \notin users_get_users(token, consumers, contacts, seq,
                                           clock).rows
               /\ c \notin users_get_users_birth(token, 7, consumers,
                                                 contacts, seq, clock).rows
               /\ \A first_name \in {"none", c.first_name},
                     second_name \in {"none", c.second_name},
                     email_add \in {"none", c.email_add} :
                      c \notin users_get_users_by(token, first_name,
                                                  second_name, email_add,
                                                  consumers, contacts, seq,
                                                  clock).rows

\* An account was just answered 404 for an update of another account's
\* contact.
C12_Witness ==
    /\ resp.op = "update_user" /\ resp.status = 404
    /\ resp.email # "none"
    /\ \E c \in contacts :
           c.id = resp.id /\ consumers[c.consumer_id].email # resp.email

\* C13 as stated: /users/all answers 200 with every contact to a valid
\* access token of an admin or moderator, 403 'FORBIDDEN' to a valid access
\* token of a plain user, and 401 to every caller without a valid access
\* token.
ValidAccess(token) ==
    /\ Signed(token) /\ Unexpired(token)
    /\ token.scope = "access_token"
    /\ Matching(token.sub) # {}

RoleOf(token) == consumers[get_user_by_email(token.sub, consumers)].role

C13_ListAllGuard ==
    resp.op = "get_all_users" =>
        IF ~ValidAccess(resp.token) THEN resp.status = 401
        ELSE IF RoleOf(resp.token) \in {"admin", "moderator"}
        THEN resp.status = 200 /\ resp.rows = contacts
        ELSE resp.status = 403 /\ resp.detail = "FORBIDDEN"

\* The part of C13 that does not depend on the verifier's answer to tokens
\* without a scope.
ListAllGuardWithScope ==
    resp.op = "get_all_users" /\ resp.token.scope # "none" =>
        IF ~ValidAccess(resp.token) THEN resp.status = 401
        ELSE IF RoleOf(resp.token) \in {"admin", "moderator"}
        THEN resp.status = 200 /\ resp.rows = contacts
        ELSE resp.status = 403 /\ resp.detail = "FORBIDDEN"

\* A moderator was just handed the contacts of two accounts.
ListAllServed ==
    /\ resp.op = "get_all_users" /\ resp.status = 200
    /\ RoleOf(resp.token) = "moderator"
    /\ \E c, d \in resp.rows : c.consumer_id # d.consumer_id

\* C14 as stated: a delete that removes nothing (id never created, owned
\* by another account, or already deleted) is answered 404 'NOT FOUND'; a
\* delete of an owned contact is answered 200 with the deleted record, which
\* is then gone.
C14_Delete ==
    resp.op = "delete_user" /\ resp.email # "none" =>
        IF resp.rows = {}
        THEN resp.status = 404 /\ resp.detail = "NOT FOUND"
        ELSE /\ resp.status = 200
             /\ \A r \in resp.rows : r.id = resp.id /\ r \notin contacts

\* The part of C14 about contacts that exist: deleting an owned contact
\* answers 200 with the record and removes exactly that contact; a delete
\* that finds nothing changes no contact.
DeleteRemovesExactlyOne ==
    \A token \in Presentable, user_id \in Ids :
        LET me == CurrentId(token, consumers, clock)
            o == users_delete_user(token, user_id, consumers, contacts,
                                   seq, clock)
            mine == {c \in contacts :
                        c.id = user_id /\ c.consumer_id = me}
        IN me # 0 =>
               /\ mine = {} => o.contacts = contacts /\ o.status # 200
               /\ mine # {} => /\ o.status = 200 /\ o.rows = mine
                               /\ o.contacts = contacts \ mine
                               /\ Cardinality(mine) = 1

\* A contact was just deleted while another one remains.
DeleteServed ==
    /\ resp.op = "delete_user" /\ resp.status = 200
    /\ contacts # {}

C16_ResetRequestWritesNothing ==
    \A email \in Emails, password \in Passwords,
       password_confirm \in Passwords :
        LET o == reset_password(email, password, password_confirm,
                                consumers, clock)
        IN  /\ o.db = consumers /\ o.commits = 0
            /\ IF Matching(email) = {}
               THEN o.status = 422 /\ o.mails = 0 /\ Handed(o) = {}
               ELSE IF password # password_confirm
               THEN /\ o.status = 422
                    /\ o.detail = "Passwords do not match!"
                    /\ o.mails = 0 /\ Handed(o) = {}
               ELSE /\ o.status = 200 /\ o.mails = 1
                    /\ Handed(o) = {o.mail} /\ IsResetToken(o.mail)
                    /\ o.mail.sub = email /\ o.mail.password = password

\* A reset email was just scheduled for a password other than the stored
\* one, which is still stored.
C16_Witness ==
    /\ resp.op = "reset_password" /\ resp.status = 200 /\ resp.mails = 1
    /\ \E t \in issued, i \in Matching(resp.email) :
           /\ IsResetToken(t) /\ t.sub = resp.email
           /\ consumers[i].password # "$2b$" \o t.password

\* C17 as stated: request_email always answers with a message (200) and
\* writes nothing; it schedules one email exactly when the account exists
\* and is unconfirmed.
C17_RequestEmailNeverFails ==
    resp.op = "request_email" =>
        /\ resp.status = 200
        /\ resp.commits = 0
        /\ resp.mails =
               IF \E i \in Matching(resp.email) : ~consumers[i].confirmed
               THEN 1 ELSE 0

\* The part of C17 about emails that have an account: the table is left as
\* it is, a confirmed account gets a message and no email, an unconfirmed
\* one gets exactly one confirmation email.
RequestEmailForAccounts ==
    \A email \in Emails :
        LET o == request_email(email, consumers, clock) IN
        /\ o.db = consumers /\ o.commits = 0
        /\ \A i \in Matching(email) :
               /\ o.status = 200
               /\ o.mails = IF consumers[i].confirmed THEN 0 ELSE 1
               /\ ~consumers[i].confirmed =>
                      Handed(o) = {o.mail} /\ IsConfirmationToken(o.mail)

\* A second confirmation email was just scheduled, later than the first.
RequestEmailServed ==
    /\ resp.op = "request_email" /\ resp.status = 200 /\ resp.mails = 1
    /\ Cardinality({t \in issued : IsConfirmationToken(t)}) = 2

\* C18 as stated: on each of login, refresh, signup, request_email and
\* reset-password, no more than the limit of requests of one window reach
\* the handler.
C18_SensitiveEndpointsLimited ==
    \A route \in Sensitive : hits[route] <= LIMIT_TIMES

\* The part of C18 about the routes declared with the limiter: at most the
\* limit of requests of one window reach the handler, and a request beyond
\* it is answered 429 with the accounts and the tokens left as they were.
GuardedEndpointsLimited ==
    [][/\ \A route \in Guarded : hits[route] <= LIMIT_TIMES
       /\ resp'.status = 429 =>
              /\ resp'.op \in Guarded
              /\ hits[resp'.op] = LIMIT_TIMES
              /\ UNCHANGED <<consumers, issued, hits>>]_vars

\* A third reset-password request of the window was just refused.
LimiterRefused ==
    /\ resp.op = "reset_password" /\ resp.status = 429
    /\ hits["reset_password"] = LIMIT_TIMES

RefreshRaceLastWriteWins ==
    [][\A r, q \in Requests :
          (/\ inflight[q].pc = "created" /\ inflight'[q].pc = "done"
           /\ inflight[r].pc = "done" /\ q \in inflight[r].overtook
           /\ inflight[r].token = inflight[q].token
           /\ inflight[r].seen = inflight[r].token
           /\ inflight[q].seen = inflight[q].token)
          => LET stored ==
                     consumers'[get_user_by_email(inflight[q].token.sub,
                                                  consumers')].refresh_token
             IN /\ inflight[r].returned # NoToken
                /\ inflight'[q].returned # NoToken
                /\ stored = inflight'[q].returned
                /\ inflight[r].returned # stored
                       <=> inflight[r].returned.iat # stored.iat]_vars

\* Two interleaved refreshes of the stored token are over, the second has
\* just committed, and the token of the first no longer matches.
RefreshRaceServed ==
    \E r, q \in Requests :
        /\ resp.op = "refresh_token" /\ resp.status = 200
        /\ inflight[r].pc = "done" /\ inflight[q].pc = "done"
        /\ q \in inflight[r].overtook
        /\ inflight[r].token = inflight[q].token
        /\ inflight[r].seen = inflight[r].token
        /\ inflight[q].seen = inflight[q].token
        /\ resp.refresh_token = inflight[q].returned
        /\ consumers[1].refresh_token = inflight[q].returned
        /\ inflight[r].returned # inflight[q].returned

\* C21: in every reachable state the password stored on every account is
\* an output of the password hasher and not a password a client submitted;
\* the body of a successful signup has no password field.
C21_PasswordsHashed ==
    /\ \A i \in DOMAIN consumers :
           /\ \E p \in Passwords : verify_password(p, consumers[i].password)
           /\ consumers[i].password \notin Passwords
    /\ \A email \in Emails, password \in Passwords :
           LET o == signup(email, password, consumers, clock) IN
           o.status = 201 =>
               /\ "password" \notin DOMAIN UserResponse(o.db[Len(o.db)])
               /\ DOMAIN UserResponse(o.db[Len(o.db)]) # {}

\* Both writers have acted: an account created by signup, not yet
\* confirmed, just had its password replaced through new-password.
C21_Witness ==
    /\ resp.op = "new_password" /\ resp.status = 200
    /\ \E i \in DOMAIN consumers :
           /\ consumers[i].email = resp.email
           /\ ~consumers[i].confirmed
           /\ consumers[i].password = get_password_hash(resp.token.password)
           /\ consumers[i].password \notin Passwords

\* C22 as stated: an update of a contact the caller owns replaces the five
\* mutable fields by the body's values and keeps id and owner; an update of
\* an id that does not exist or belongs to another account is answered 404
\* 'NOT FOUND' and changes no contact.
C22_Update ==
    \A token \in Presentable, user_id \in Ids, body \in Bodies :
        LET me == CurrentId(token, consumers, clock)
            o == users_update_user(token, user_id, body, consumers,
                                   contacts, seq, clock)
            mine == {c \in contacts :
                        c.id = user_id /\ c.consumer_id = me}
        IN me # 0 =>
               /\ mine = {} =>
                      /\ o.status = 404 /\ o.detail = "NOT FOUND"
                      /\ o.rows = {} /\ o.contacts = contacts
               /\ mine # {} =>
                      /\ o.status = 200
                      /\ o.rows = {UserRow(user_id, me, body)}
                      /\ o.contacts =
                             (contacts \ mine) \cup {UserRow(user_id, me, body)}

\* The part of C22 that holds: the same, for a body whose phone_num and
\* email_add are held by no other contact; a body that repeats one of them
\* is answered 500 and changes no contact.
UpdateReplacesUnlessDuplicate ==
    \A token \in Presentable, user_id \in Ids, body \in Bodies :
        LET me == CurrentId(token, consumers, clock)
            o == users_update_user(token, user_id, body, consumers,
                                   contacts, seq, clock)
            mine == {c \in contacts :
                        c.id = user_id /\ c.consumer_id = me}
            taken == \E c \in contacts \ mine :
                         \/ c.phone_num = body.phone_num
                         \/ c.email_add = body.email_add
        IN me # 0 =>
               /\ mine = {} =>
                      /\ o.status = 404 /\ o.detail = "NOT FOUND"
                      /\ o.rows = {} /\ o.contacts = contacts
               /\ mine # {} /\ taken =>
                      /\ o.status = 500 /\ o.contacts = contacts
               /\ mine # {} /\ ~taken =>
                      /\ o.status = 200
                      /\ o.rows = {UserRow(user_id, me, body)}
                      /\ o.contacts =
                             (contacts \ mine) \cup {UserRow(user_id, me, body)}
                      /\ o.seq = seq

\* A contact was just replaced by an update while the caller owns a second
\* one.
UpdateServed ==
    /\ resp.op = "update_user" /\ resp.status = 200
    /\ resp.rows \subseteq contacts
    /\ \E c \in resp.rows, d \in contacts :
           d.id # c.id /\ d.consumer_id = c.consumer_id

\* C23 as stated: for every authenticated caller and every N in the allowed
\* range the upcoming-birthday lookup succeeds and returns exactly the
\* caller's contacts whose birth_date d satisfies today <= d <= today + N.
\* Dates are day numbers; today is the day of the clock.
C23_BirthdayLookup ==
    \A token \in Presentable, limit \in {7, 100} :
        LET me == CurrentId(token, consumers, clock)
            today == clock \div 86400
            o == users_get_users_birth(token, limit, consumers, contacts,
                                       seq, clock)
        IN me # 0 =>
               /\ o.status = 200
               /\ o.rows = {c \in contacts :
                               /\ c.consumer_id = me
                               /\ today <= c.birth_date
                               /\ c.birth_date <= today + limit}

\* What the lookup does instead: every authenticated call ends as 500 with
\* no rows, whatever the contacts; nothing is changed.
BirthdayLookupRaises ==
    \A token \in Presentable, limit \in {7, 100} :
        LET me == CurrentId(token, consumers, clock)
            o == users_get_users_birth(token, limit, consumers, contacts,
                                       seq, clock)
        IN me # 0 =>
               /\ o.status = 500 /\ o.rows = {}
               /\ o.contacts = contacts /\ o.seq = seq

\* The lookup was just called by an account that owns a contact whose
\* birthday is within the next 7 days.
BirthdayLookupServed ==
    /\ resp.op = "get_users_birth" /\ resp.email # "none"
    /\ \E c \in contacts :
           /\ c.consumer_id = CurrentId(resp.token, consumers, clock)
           /\ clock \div 86400 <= c.birth_date
           /\ c.birth_date <= clock \div 86400 + 7

\* The verifier of each kind of token, applied now.
Accepts(token) ==
    \/ IsAccessToken(token)
           /\ get_current_user(token, consumers, clock).status = 200
    \/ IsRefreshToken(token)
           /\ decode_refresh_token(token, clock).status = 200
    \/ IsConfirmationToken(token)
           /\ get_email_from_token(token, clock).status = 200
    \/ IsResetToken(token)
           /\ get_email_from_token(token, clock).status = 200
           /\ get_password_from_token(token, clock).status = 200

\* Lifetime of a token issued without expires_delta.
Lifetime(token) ==
    IF IsAccessToken(token) THEN ACCESS_TTL
    ELSE IF IsRefreshToken(token) THEN REFRESH_TTL
    ELSE EMAIL_TTL

\* C24 as stated: a token is accepted only at times strictly before its
\* expiry; without expires_delta an access token is rejected with 401 from
\* 15 minutes after issue, a refresh token with 401 from 7 days, an email or
\* reset token from 1 day; expires_delta = s > 0 puts the expiry at issue
\* time + s.
C24_ExpiryStrict ==
    /\ \A token \in issued : Accepts(token) => clock < token.exp
    /\ \A s \in Deltas, now \in {0, 1} :
           LET a == create_access_token_expires("a@x", TRUE, s, now)
               r == create_refresh_token_expires("a@x", s, now)
           IN /\ s > 0 => a.exp = now + s /\ r.exp = now + s
              /\ s = 0 => /\ a = create_access_token("a@x", TRUE, now)
                          /\ r = create_refresh_token("a@x", now)
    /\ \A token \in TokensAt(0) \cup TokensAt(1) :
           (/\ token.exp = token.iat + Lifetime(token)
            /\ clock >= token.iat + Lifetime(token)) =>
                   /\ ~Accepts(token)
                   /\ IsAccessToken(token) =>
                          get_current_user(token, consumers,
                                           clock).status = 401
                   /\ IsRefreshToken(token) =>
                          decode_refresh_token(token, clock).status = 401

\* What holds instead: a token is accepted exactly up to and including the
\* second of its expiry; after it an access or refresh token is answered
\* 401 and an email or reset token 422; the expiry is issue time plus
\* expires_delta, or plus the default lifetime.
ExpiryInclusive ==
    /\ \A token \in issued :
           /\ Accepts(token) <=> clock <= token.exp
           /\ clock > token.exp =>
                  /\ IsAccessToken(token) =>
                         get_current_user(token, consumers,
                                          clock).status = 401
                  /\ IsRefreshToken(token) =>
                         decode_refresh_token(token, clock).status = 401
                  /\ token.scope = "none" =>
                         get_email_from_token(token, clock).status = 422
    /\ \A s \in Deltas, now \in {0, 1} :
           LET a == create_access_token_expires("a@x", TRUE, s, now)
               r == create_refresh_token_expires("a@x", s, now)
           IN /\ s > 0 => a.exp = now + s /\ r.exp = now + s
              /\ s = 0 => /\ a = create_access_token("a@x", TRUE, now)
                          /\ r = create_refresh_token("a@x", now)
                          /\ a.exp = now + ACCESS_TTL
                          /\ r.exp = now + REFRESH_TTL

\* An access token issued without expires_delta was just accepted exactly
\* 15 minutes after its issue.
ExpiryBoundaryServed ==
    /\ resp.op = "get_current_user" /\ resp.status = 200
    /\ IsAccessToken(resp.token)
    /\ resp.token.exp = resp.token.iat + ACCESS_TTL
    /\ clock = resp.token.exp

RotationUnlessSameSecond ==
    \A token \in Presentable :
        LET o == refresh_token(token, consumers, clock) IN
        o.status = 200 =>
            /\ clock = token.iat => o.refresh_token = token
            /\ clock # token.iat =>
                   /\ \A i \in DOMAIN o.db : o.db[i].refresh_token # token
                   /\ \A now \in Times :
                          now >= clock =>
                              LET again == refresh_token(token, o.db, now) IN
                              /\ again.status = 401
                              /\ \A i \in DOMAIN again.db :
                                     again.db[i].email = token.sub =>
                                         again.db[i].refresh_token =
                                             IF token.exp < now
                                             THEN o.refresh_token
                                             ELSE NoToken

\* A refresh just replaced the presented token by a later one, and a second
\* presentation of the old token would now be refused.
RotationServed ==
    /\ resp.op = "refresh_token" /\ resp.status = 200
    /\ resp.token.iat < resp.refresh_token.iat
    /\ \E i \in Matching(resp.email) :
           consumers[i].refresh_token = resp.refresh_token
    /\ refresh_token(resp.token, consumers, clock).status = 401

\* C26: starting from no accounts, an account that has a stored
\* refresh_token is confirmed; every access or refresh token handed out has
\* as subject an account that was confirmed when the token was issued; no
\* token a client can present passes get_current_user for an unconfirmed
\* account.
C26_OnlyConfirmedHoldTokens ==
    /\ [](/\ \A i \in DOMAIN consumers :
               consumers[i].refresh_token # NoToken => consumers[i].confirmed
          /\ \A token \in issued :
               IsAccessToken(token) \/ IsRefreshToken(token) =>
                   \E i \in Matching(token.sub) : consumers[i].confirmed
          /\ \A token \in Presentable :
               get_current_user(token, consumers, clock).status = 200 =>
                   \E i \in Matching(token.sub) : consumers[i].confirmed)
    /\ [][\A token \in issued' \ issued :
              IsAccessToken(token) \/ IsRefreshToken(token) =>
                  \E i \in Matching(token.sub) : consumers[i].confirmed]_vars

\* One account has logged in and holds a stored refresh token while the
\* other has signed up and is not confirmed.
C26_Witness ==
    /\ resp.op = "login" /\ resp.status = 200
    /\ \E i, j \in DOMAIN consumers :
           /\ consumers[i].confirmed
           /\ consumers[i].refresh_token = resp.refresh_token
           /\ ~consumers[j].confirmed
           /\ consumers[j].refresh_token = NoToken

\* C27: applying a password reset changes only the password of the
\* account: the stored refresh_token and the confirmed flag stay as they
\* were, so every refresh token and every access token is answered after
\* the reset as it was answered before it.
C27_ResetKeepsSessions ==
    \A token \in Presentable \cup EmailTokens :
        LET o == new_password(token, consumers, clock) IN
        o.status = 200 =>
            /\ Len(o.db) = Len(consumers)
            /\ \A i \in DOMAIN consumers :
                   /\ o.db[i].refresh_token = consumers[i].refresh_token
                   /\ o.db[i].confirmed = consumers[i].confirmed
                   /\ o.db[i].email = consumers[i].email
                   /\ o.db[i].role = consumers[i].role
            /\ \A t \in Presentable :
                   /\ refresh_token(t, o.db, clock).status =
                          refresh_token(t, consumers, clock).status
                   /\ get_current_user(t, o.db, clock) =
                          get_current_user(t, consumers, clock)

\* A reset was just applied to an account that had logged in: its stored
\* refresh token is still accepted and so is its access token.
C27_Witness ==
    /\ resp.op = "new_password" /\ resp.status = 200
    /\ \E i \in Matching(resp.email) :
           /\ consumers[i].refresh_token # NoToken
           /\ consumers[i].password = get_password_hash(resp.token.password)
           /\ refresh_token(consumers[i].refresh_token, consumers,
                            clock).status = 200
    /\ \E t \in issued :
           /\ IsAccessToken(t) /\ t.sub = resp.email
           /\ get_current_user(t, consumers, clock).status = 200

C29_RolesNeverChange ==
    /\ [][/\ Len(consumers') >= Len(consumers)
          /\ \A i \in DOMAIN consumers :
                 /\ consumers'[i].role = consumers[i].role
                 /\ consumers'[i].id = consumers[i].id
                 /\ consumers'[i].email = consumers[i].email
                 /\ consumers[i].confirmed => consumers'[i].confirmed]_vars
    /\ [](/\ \A i \in DOMAIN consumers : consumers[i].role = "user"
          /\ \A token \in Presentable :
                 users_get_all_users(token, consumers, contacts, seq,
                                     clock).status # 200
          /\ resp.op = "get_all_users" => resp.status # 200)

\* An account that owns a contact and has changed its avatar was just
\* refused by the guard of GET /users/all.
C29_Witness ==
    /\ resp.op = "get_all_users" /\ resp.status = 403
    /\ \E i \in Matching(resp.email), c \in contacts :
           /\ c.consumer_id = consumers[i].id
           /\ consumers[i].avatar = "cloud"
           /\ consumers[i].confirmed /\ consumers[i].role = "user"

\* What account b@x is answered on its own contacts in a given table:
\* status and body of every create, get, list, search, update and delete.
AnswersTo(token, cs, sq) ==
    [create |-> [body \in Bodies |->
                    LET o == users_create_user(token, body, consumers, cs,
                                               sq, clock)
                    IN <<o.status, o.rows>>],
     get |-> [user_id \in Ids |->
                 LET o == users_get_user(token, user_id, consumers, cs, sq,
                                         clock)
                 IN <<o.status, o.rows>>],
     list |-> LET o == users_get_users(token, consumers, cs, sq, clock)
              IN <<o.status, o.rows>>,
     search |-> [second_name \in {"none", "Lee"} |->
                    LET o == users_get_users_by(token, "none", second_name,
                                                "none", consumers, cs, sq,
                                                clock)
                    IN <<o.status, o.rows>>],
     update |-> [user_id \in Ids |-> [body \in Bodies |->
                    LET o == users_update_user(token, user_id, body,
                                               consumers, cs, sq, clock)
                    IN <<o.status, o.rows>>]],
     delete |-> [user_id \in Ids |->
                    LET o == users_delete_user(token, user_id, consumers, cs,
                                               sq, clock)
                    IN <<o.status, o.rows>>]]

\* The same without the two operations that insert or rewrite phone_num and
\* email_add.
ReadAnswersTo(token, cs, sq) ==
    [f \in {"get", "list", "search", "delete"} |->
        AnswersTo(token, cs, sq)[f]]

\* A step in which account a@x has changed its own contacts.
OwnerChanges(email) ==
    /\ resp'.op \in {"create_user", "update_user", "delete_user"}
    /\ resp'.email = email
    /\ contacts' # contacts

\* C30 as stated: whatever a@x does to its own contacts, every answer b@x
\* gets on its own contacts stays the same, the outcome of a create or
\* update with a given phone_num or email_add and the id given to a new
\* contact included.
C30_NonInterference ==
    [][OwnerChanges("a@x") =>
          \A token \in issued :
              CurrentId(token, consumers, clock) = 2 =>
                  AnswersTo(token, contacts', seq') =
                      AnswersTo(token, contacts, seq)]_vars

\* The part of C30 that holds: get, list, search and delete of b@x are
\* answered the same whatever a@x does to its own contacts.
ReadsDoNotInterfere ==
    [][OwnerChanges("a@x") =>
          \A token \in issued :
              CurrentId(token, consumers, clock) = 2 =>
                  ReadAnswersTo(token, contacts', seq') =
                      ReadAnswersTo(token, contacts, seq)]_vars

\* a@x just created a contact while b@x owns one.
InterferenceServed ==
    /\ resp.op = "create_user" /\ resp.status = 201 /\ resp.email = "a@x"
    /\ \E c, d \in contacts : c.consumer_id = 1 /\ d.consumer_id = 2

====
